---- MODULE Spec2Model ----
(***************************************************************************)
(* A model of yb/common/yql_value.{h,cc}: the YQLValue interface, its      *)
(* YQLValuePB-backed implementation YQLValueWithPB, the comparison         *)
(* functions and the CQL wire serializer / deserializer.                   *)
(*                                                                         *)
(* A YQLValuePB is a protobuf "oneof": a record [case, val] whose case     *)
(* names the active field (or VALUE_NOT_SET) and whose val is the payload. *)
(* Fixed-width integers are modelled at their width: an int64 is a tuple   *)
(* of four 16-bit limbs <<l3, l2, l1, l0>> (l3 signed, most significant),  *)
(* a float / double is the tuple of its IEEE-754 fields <<s, e, m..>> with *)
(* the mantissa in limbs, a string is a tuple of bytes (0..255).  The      *)
(* payload of a record is always a tuple: <<x>> for the 32-bit fields,     *)
(* <<0>> / <<1>> for the bool field, <<>> when no field is set.            *)
(***************************************************************************)
EXTENDS Integers, Sequences, FiniteSets, TLC

VARIABLES v, other, buffer, data, last

vars == <<v, other, buffer, data, last>>

\* ------------------------------------------------------------------------
\* Bounds of the model.

\* Longest string payload among the sampled values.
MaxStrLen == 2

\* Serialize is called on a buffer that holds at most this many bytes.
MaxBuffer == 4

\* ------------------------------------------------------------------------
\* Machine integers.

Pow16 == 256 * 256

\* static_cast<int8_t>(x) of a 32-bit protobuf field.
Cast8(x) == ((x + 128) % 256) - 128

\* static_cast<int16_t>(x) of a 32-bit protobuf field.
Cast16(x) == ((x + 32768) % Pow16) - 32768

\* The two bytes of a 16-bit quantity (signed or unsigned), high byte first.
Bytes16(x) == <<(x \div 256) % 256, x % 256>>

\* The unsigned 16-bit quantity held in two bytes, high byte first.
Word16(b, i) == b[i] * 256 + b[i + 1]

\* operator< of int64_t on limb tuples.
Less64(a, b) ==
  \E i \in 1..4 : a[i] < b[i] /\ \A j \in 1..(i - 1) : a[j] = b[j]

INT64_MAX == <<32767, 65535, 65535, 65535>>
INT64_MIN == <<-32768, 0, 0, 0>>

\* The 64-bit two's-complement pattern of x as four unsigned limbs.
Unsigned64(x) == <<x[1] % Pow16, x[2], x[3], x[4]>>

\* The int64_t whose two's-complement pattern is the unsigned limbs u.
Signed64(u) == <<Cast16(u[1]), u[2], u[3], u[4]>>

\* |x| of an int64_t as unsigned limbs (2^63 for INT64_MIN).
Magnitude64(x) ==
  IF x[1] >= 0 THEN x
  ELSE LET u  == Unsigned64(x)
           n0 == (65535 - u[4]) + 1
           n1 == (65535 - u[3]) + (n0 \div Pow16)
           n2 == (65535 - u[2]) + (n1 \div Pow16)
           n3 == (65535 - u[1]) + (n2 \div Pow16)
       IN  <<n3 % Pow16, n2 % Pow16, n1 % Pow16, n0 % Pow16>>

\* The int64_t of sign neg and magnitude m (m <= 2^63, or 2^63 - 1 if ~neg).
FromMagnitude64(neg, m) ==
  IF ~neg THEN m
  ELSE LET n0 == (65535 - m[4]) + 1
           n1 == (65535 - m[3]) + (n0 \div Pow16)
           n2 == (65535 - m[2]) + (n1 \div Pow16)
           n3 == (65535 - m[1]) + (n2 \div Pow16)
       IN  Signed64(<<n3 % Pow16, n2 % Pow16, n1 % Pow16, n0 % Pow16>>)

\* val / 10 of int64_t (C++ division truncates toward zero).
Div10(x) ==
  LET m  == Magnitude64(x)
      r3 == m[1] % 10
      c2 == r3 * Pow16 + m[2]
      c1 == (c2 % 10) * Pow16 + m[3]
      c0 == (c1 % 10) * Pow16 + m[4]
  IN  FromMagnitude64(x[1] < 0, <<m[1] \div 10, c2 \div 10, c1 \div 10, c0 \div 10>>)

\* val * 10 of int64_t, for INT64_MIN / 10 <= val <= INT64_MAX / 10.
Mul10(x) ==
  LET m  == Magnitude64(x)
      p0 == m[4] * 10
      p1 == m[3] * 10 + (p0 \div Pow16)
      p2 == m[2] * 10 + (p1 \div Pow16)
      p3 == m[1] * 10 + (p2 \div Pow16)
  IN  FromMagnitude64(x[1] < 0, <<p3 % Pow16, p2 % Pow16, p1 % Pow16, p0 % Pow16>>)

\* ------------------------------------------------------------------------
\* DateTime and Timestamp.

\* DateTime::internal_precision: decimal digits of a second (microseconds).
internal_precision == 6

\* DateTime::CqlDateTimeInputFormat.input_precision(): milliseconds.
cql_input_precision == 3

\* DateTime::AdjustPrecision: scale val from input_precision to
\* output_precision decimal digits, a digit at a time; scaling up saturates
\* at INT64_MAX / INT64_MIN instead of overflowing, scaling down truncates.
RECURSIVE AdjustPrecision(_, _, _)
AdjustPrecision(val, input_precision, output_precision) ==
  IF input_precision < output_precision
  THEN IF Less64(Div10(INT64_MAX), val) THEN INT64_MAX
       ELSE IF Less64(val, Div10(INT64_MIN)) THEN INT64_MIN
       ELSE AdjustPrecision(Mul10(val), input_precision + 1, output_precision)
  ELSE IF input_precision > output_precision
  THEN AdjustPrecision(Div10(val), input_precision - 1, output_precision)
  ELSE val

\* Timestamp(int64) and Timestamp::ToInt64().
Timestamp(x) == [value_ |-> x]
ToInt64(t) == t.value_

\* ------------------------------------------------------------------------
\* IEEE-754 values: <<sign, biased exponent, mantissa limbs..>>, the mantissa of
\* a float in two limbs (7 and 16 bits), of a double in four (4, 16, 16, 16).

FloatEMax == 255
DoubleEMax == 2047

IsNaN(emax, f) == f[2] = emax /\ \E i \in 3..Len(f) : f[i] # 0
IsZero(f) == \A i \in 2..Len(f) : f[i] = 0

\* |a| < |b| for two non-NaN values.
MagnitudeLess(a, b) ==
  \E i \in 2..Len(a) : a[i] < b[i] /\ \A j \in 2..(i - 1) : a[j] = b[j]

\* operator< of float / double: false when either is a NaN, -0 equals +0.
FloatLess(emax, a, b) ==
  /\ ~IsNaN(emax, a)
  /\ ~IsNaN(emax, b)
  /\ ~(IsZero(a) /\ IsZero(b))
  /\ IF a[1] # b[1] THEN a[1] = 1
     ELSE IF a[1] = 0 THEN MagnitudeLess(a, b) ELSE MagnitudeLess(b, a)

LessFloat(a, b) == FloatLess(FloatEMax, a, b)
LessDouble(a, b) == FloatLess(DoubleEMax, a, b)

\* ------------------------------------------------------------------------
\* YQLValuePB: the protobuf oneof.

DataTypes ==
  {"UNKNOWN_DATA", "INT8", "INT16", "INT32", "INT64", "STRING", "BOOL", "FLOAT",
   "DOUBLE", "BINARY", "TIMESTAMP", "UINT8", "UINT16", "UINT32", "UINT64"}

\* YQL_UNSUPPORTED_TYPES_IN_SWITCH
UnsupportedTypes == {"UINT8", "UINT16", "UINT32", "UINT64", "BINARY", "UNKNOWN_DATA"}

SupportedTypes == DataTypes \ UnsupportedTypes

PB(c, x) == [val |-> x, case |-> c]

\* A default-constructed YQLValuePB: no field of the oneof is set.
NotSet == PB("VALUE_NOT_SET", <<>>)

Zero64 == <<0, 0, 0, 0>>
MinusOne64 == <<-1, 65535, 65535, 65535>>

Int8Values == {-128, -1, 0, 127}
Int16Values == {-32768, 0, 258, 32767}
Int32Values == {-2147483647 - 1, -1, 0, 3, 5, 2147483647}
Int64Values == {INT64_MIN, MinusOne64, Zero64, <<0, 1, 2, 3>>, INT64_MAX}
\* In microseconds: INT64_MIN, -1000, 0, 1001, 2000, INT64_MAX.
TimestampValues ==
  {INT64_MIN, <<-1, 65535, 65535, 64536>>, Zero64, <<0, 0, 0, 1001>>, <<0, 0, 0, 2000>>,
   INT64_MAX}
\* 0.0, -0.0, 1.0, -1.5, FLT_MAX, a quiet NaN.
FloatValues ==
  {<<0, 0, 0, 0>>, <<1, 0, 0, 0>>, <<0, 127, 0, 0>>, <<1, 127, 64, 0>>,
   <<0, 254, 127, 65535>>, <<0, 255, 64, 0>>}
\* 0.0, 1.0, -DBL_MAX, a quiet NaN.
DoubleValues ==
  {<<0, 0, 0, 0, 0, 0>>, <<0, 1023, 0, 0, 0, 0>>, <<1, 2046, 15, 65535, 65535, 65535>>,
   <<0, 2047, 8, 0, 0, 0>>}
StringValues ==
  UNION {[1..n -> {97, 98}] : n \in 0..MaxStrLen} \cup {<<200>>}
BoolValues == {TRUE, FALSE}

\* The payloads the typed setters leave in each field of the oneof.
FieldValues(c) ==
  CASE c = "kInt8Value" -> {<<x>> : x \in Int8Values}
    [] c = "kInt16Value" -> {<<x>> : x \in Int16Values}
    [] c = "kInt32Value" -> {<<x>> : x \in Int32Values}
    [] c = "kInt64Value" -> Int64Values
    [] c = "kFloatValue" -> FloatValues
    [] c = "kDoubleValue" -> DoubleValues
    [] c = "kStringValue" -> StringValues
    [] c = "kBoolValue" -> {<<0>>, <<1>>}
    [] c = "kTimestampValue" -> TimestampValues

ValueCases ==
  {"kInt8Value", "kInt16Value", "kInt32Value", "kInt64Value", "kFloatValue",
   "kDoubleValue", "kStringValue", "kBoolValue", "kTimestampValue"}

\* Any YQLValuePB: int8_value and int16_value are 32-bit protobuf fields, so a
\* record built elsewhere can hold a number outside the int8 / int16 range.
ForeignRecords ==
  {NotSet, PB("kInt8Value", <<300>>), PB("kInt16Value", <<70000>>),
   PB("kInt32Value", <<5>>), PB("kStringValue", <<97>>), PB("kBoolValue", <<1>>)}

\* The states a YQLValuePB can be in.
Records == UNION {{PB(c, x) : x \in FieldValues(c)} : c \in ValueCases} \cup ForeignRecords

\* ------------------------------------------------------------------------
\* Static functions on a YQLValuePB.

\* type without the case of the bool field: it falls to UNKNOWN_DATA.
type_withoutBool(r) ==
  CASE r.case = "kInt8Value" -> "INT8"
    [] r.case = "kInt16Value" -> "INT16"
    [] r.case = "kInt32Value" -> "INT32"
    [] r.case = "kInt64Value" -> "INT64"
    [] r.case = "kFloatValue" -> "FLOAT"
    [] r.case = "kDoubleValue" -> "DOUBLE"
    [] r.case = "kStringValue" -> "STRING"
    [] r.case = "kTimestampValue" -> "TIMESTAMP"
    [] OTHER -> "UNKNOWN_DATA"

\* YQLValue::type(const YQLValuePB&)
type(r) ==
  CASE r.case = "kInt8Value" -> "INT8"
    [] r.case = "kInt16Value" -> "INT16"
    [] r.case = "kInt32Value" -> "INT32"
    [] r.case = "kInt64Value" -> "INT64"
    [] r.case = "kFloatValue" -> "FLOAT"
    [] r.case = "kDoubleValue" -> "DOUBLE"
    [] r.case = "kStringValue" -> "STRING"
    [] r.case = "kBoolValue" -> "BOOL"
    [] r.case = "kTimestampValue" -> "TIMESTAMP"
    [] OTHER -> "UNKNOWN_DATA"

\* YQLValue::IsNull(const YQLValuePB&)
IsNull(r) == r.case = "VALUE_NOT_SET"

\* What a call gives: a returned value, or the end of the process.
Abort == [status |-> "abort", ret |-> 0]
Ret(x) == [status |-> "ok", ret |-> x]
\* A CHECK that only logs: the call goes on and returns 0.
CheckFailed_ignored == [status |-> "ok", ret |-> 0]

\* A failed CHECK / CHECK_EQ aborts the process (glog CHECKs are never compiled out).
CheckFailed == Abort
\* LOG(ERROR) in place of LOG(FATAL): the return after it is reached.
LogFatal_returns(ret) == [status |-> "ok", ret |-> ret]

\* LOG(FATAL) << ...; return ret;  the log aborts, the return is never reached.
LogFatal(ret) == Abort

\* The getter without its CHECK: a field that is not set reads as its default.
GetValue_unchecked(r, c) ==
  IF r.case # c THEN Ret(0)
  ELSE IF c \in {"kInt8Value", "kInt16Value", "kInt32Value"} THEN Ret(r.val[1])
  ELSE IF c = "kBoolValue" THEN Ret(r.val[1] # 0)
  ELSE IF c = "kTimestampValue" THEN Ret([value_ |-> r.val])
  ELSE Ret(r.val)

\* YQL_GET_VALUE and the static typed getters: CHECK(v.has_<field>()), then the
\* field cast to the getter's return type.
GetValue(r, c) ==
  IF r.case # c THEN CheckFailed
  ELSE CASE c = "kInt8Value" -> Ret(Cast8(r.val[1]))
         [] c = "kInt16Value" -> Ret(Cast16(r.val[1]))
         [] c = "kInt32Value" -> Ret(r.val[1])
         [] c = "kBoolValue" -> Ret(r.val[1] # 0)
         [] c = "kTimestampValue" -> Ret(Timestamp(r.val))
         [] OTHER -> Ret(r.val)

int8_value(r) == GetValue(r, "kInt8Value")
int16_value(r) == GetValue(r, "kInt16Value")
int32_value(r) == GetValue(r, "kInt32Value")
int64_value(r) == GetValue(r, "kInt64Value")
float_value(r) == GetValue(r, "kFloatValue")
double_value(r) == GetValue(r, "kDoubleValue")
bool_value(r) == GetValue(r, "kBoolValue")
string_value(r) == GetValue(r, "kStringValue")
timestamp_value(r) == GetValue(r, "kTimestampValue")

\* YQLValue::BothNotNull / EitherIsNull / Comparable on two YQLValuePB.
BothNotNullPB(lhs, rhs) == ~IsNull(lhs) /\ ~IsNull(rhs)
EitherIsNullPB(lhs, rhs) == IsNull(lhs) \/ IsNull(rhs)
ComparablePB(lhs, rhs) == lhs.case = rhs.case \/ EitherIsNullPB(lhs, rhs)
\* GenericCompare with the two results exchanged.
GenericCompare_swapped(less, greater) == IF less THEN 1 ELSE IF greater THEN -1 ELSE 0

\* GenericCompare without the equal case.
GenericCompare_noEqual(less, greater) == IF less THEN -1 ELSE 1

\* YQLValue::GenericCompare<T>, given lhs < rhs and lhs > rhs of T.
GenericCompare(less, greater) == IF less THEN -1 ELSE IF greater THEN 1 ELSE 0

CompareInt(a, b) == GenericCompare(a < b, a > b)
CompareInt64(a, b) == GenericCompare(Less64(a, b), Less64(b, a))
CompareFloat(a, b) == GenericCompare(LessFloat(a, b), LessFloat(b, a))
CompareDouble(a, b) == GenericCompare(LessDouble(a, b), LessDouble(b, a))

\* std::string::compare as libstdc++ computes it: memcmp over the common prefix
\* (bytes unsigned; glibc gives the difference of the first differing bytes),
\* and the difference of the lengths when one string is a prefix of the other.
string_compare(a, b) ==
  LET n    == IF Len(a) < Len(b) THEN Len(a) ELSE Len(b)
      diff == {i \in 1..n : a[i] # b[i]}
  IN  IF diff = {} THEN Len(a) - Len(b)
      ELSE LET i == CHOOSE k \in diff : \A j \in diff : k <= j IN a[i] - b[i]

\* YQLValue::CompareTo(const YQLValuePB&, const YQLValuePB&)
CompareToPB(lhs, rhs) ==
  IF ~ComparablePB(lhs, rhs) THEN CheckFailed
  ELSE IF ~BothNotNullPB(lhs, rhs) THEN CheckFailed
  ELSE CASE lhs.case = "kInt8Value" -> Ret(CompareInt(lhs.val[1], rhs.val[1]))
         [] lhs.case = "kInt16Value" -> Ret(CompareInt(lhs.val[1], rhs.val[1]))
         [] lhs.case = "kInt32Value" -> Ret(CompareInt(lhs.val[1], rhs.val[1]))
         [] lhs.case = "kInt64Value" -> Ret(CompareInt64(lhs.val, rhs.val))
         [] lhs.case = "kFloatValue" -> Ret(CompareFloat(lhs.val, rhs.val))
         [] lhs.case = "kDoubleValue" -> Ret(CompareDouble(lhs.val, rhs.val))
         [] lhs.case = "kStringValue" -> Ret(string_compare(lhs.val, rhs.val))
         [] lhs.case = "kBoolValue" -> LogFatal(0)
         [] lhs.case = "kTimestampValue" -> Ret(CompareInt64(lhs.val, rhs.val))
         [] lhs.case = "VALUE_NOT_SET" -> LogFatal(0)

\* "<=" written as "<": equal operands are not less-or-equal.
AgainstZero_strictLessEqual(x, op) ==
  CASE op = "<" -> x < 0
    [] op = ">" -> x > 0
    [] op = "<=" -> x < 0
    [] op = ">=" -> x >= 0
    [] op = "==" -> x = 0
    [] op = "!=" -> x # 0

\* The C++ comparison "x op 0" of the six relational operators.
AgainstZero(x, op) ==
  CASE op = "<" -> x < 0
    [] op = ">" -> x > 0
    [] op = "<=" -> x <= 0
    [] op = ">=" -> x >= 0
    [] op = "==" -> x = 0
    [] op = "!=" -> x # 0

RelOps == {"<", ">", "<=", ">=", "==", "!="}

\* "CompareTo(..) op 0" of an outcome o of CompareTo.
OutcomeAgainstZero(o, op) ==
  IF o.status = "abort" THEN o ELSE Ret(AgainstZero(o.ret, op))
\* YQL_COMPARE with "!=" true of a null operand.
YQL_COMPARE_nullNotEqual(lhs, rhs, op) ==
  IF ~BothNotNullPB(lhs, rhs) THEN [status |-> "ok", ret |-> op = "!="]
  ELSE IF CompareToPB(lhs, rhs).status = "abort" THEN CompareToPB(lhs, rhs)
  ELSE [status |-> "ok", ret |-> AgainstZero(CompareToPB(lhs, rhs).ret, op)]

\* YQL_COMPARE(lhs, rhs, op): BothNotNull(lhs, rhs) && CompareTo(lhs, rhs) op 0.
YQL_COMPARE(lhs, rhs, op) ==
  IF ~BothNotNullPB(lhs, rhs) THEN Ret(FALSE)
  ELSE OutcomeAgainstZero(CompareToPB(lhs, rhs), op)

\* ------------------------------------------------------------------------
\* YQLValueWithPB: the YQLValue interface over its own YQLValuePB.

WithPB_type(r) == type(r)
WithPB_IsNull(r) == IsNull(r)

\* The typed getters of YQLValueWithPB forward to the static ones.
WithPB_int8_value(r) == int8_value(r)
WithPB_int16_value(r) == int16_value(r)
WithPB_int32_value(r) == int32_value(r)
WithPB_int64_value(r) == int64_value(r)
WithPB_float_value(r) == float_value(r)
WithPB_double_value(r) == double_value(r)
WithPB_bool_value(r) == bool_value(r)
WithPB_string_value(r) == string_value(r)
WithPB_timestamp_value(r) == timestamp_value(r)

\* The typed getter of YQLValueWithPB for field c.
WithPB_value(r, c) ==
  CASE c = "kInt8Value" -> WithPB_int8_value(r)
    [] c = "kInt16Value" -> WithPB_int16_value(r)
    [] c = "kInt32Value" -> WithPB_int32_value(r)
    [] c = "kInt64Value" -> WithPB_int64_value(r)
    [] c = "kFloatValue" -> WithPB_float_value(r)
    [] c = "kDoubleValue" -> WithPB_double_value(r)
    [] c = "kBoolValue" -> WithPB_bool_value(r)
    [] c = "kStringValue" -> WithPB_string_value(r)
    [] c = "kTimestampValue" -> WithPB_timestamp_value(r)

\* YQLValue::BothNotNull / EitherIsNull / Comparable (instance methods).
BothNotNull(a, b) == ~WithPB_IsNull(a) /\ ~WithPB_IsNull(b)
EitherIsNull(a, b) == WithPB_IsNull(a) \/ WithPB_IsNull(b)
\* Comparable without the null case.
Comparable_sameTypeOnly(a, b) == WithPB_type(a) = WithPB_type(b) /\ ~EitherIsNull(a, b)


Comparable(a, b) == WithPB_type(a) = WithPB_type(b) \/ EitherIsNull(a, b)

\* The outcome of a call on two getter results: a getter's abort is the call's.
Got2(ga, gb, ret) ==
  IF ga.status = "abort" THEN ga ELSE IF gb.status = "abort" THEN gb ELSE Ret(ret)

\* YQLValue::CompareTo(const YQLValue&)
CompareTo(a, b) ==
  IF WithPB_type(a) # WithPB_type(b) THEN CheckFailed
  ELSE IF WithPB_IsNull(a) THEN CheckFailed
  ELSE IF WithPB_IsNull(b) THEN CheckFailed
  ELSE CASE WithPB_type(a) = "INT8" ->
              LET ga == WithPB_int8_value(a)
                  gb == WithPB_int8_value(b)
              IN  Got2(ga, gb, CompareInt(ga.ret, gb.ret))
         [] WithPB_type(a) = "INT16" ->
              LET ga == WithPB_int16_value(a)
                  gb == WithPB_int16_value(b)
              IN  Got2(ga, gb, CompareInt(ga.ret, gb.ret))
         [] WithPB_type(a) = "INT32" ->
              LET ga == WithPB_int32_value(a)
                  gb == WithPB_int32_value(b)
              IN  Got2(ga, gb, CompareInt(ga.ret, gb.ret))
         [] WithPB_type(a) = "INT64" ->
              LET ga == WithPB_int64_value(a)
                  gb == WithPB_int64_value(b)
              IN  Got2(ga, gb, CompareInt64(ga.ret, gb.ret))
         [] WithPB_type(a) = "FLOAT" ->
              LET ga == WithPB_float_value(a)
                  gb == WithPB_float_value(b)
              IN  Got2(ga, gb, CompareFloat(ga.ret, gb.ret))
         [] WithPB_type(a) = "DOUBLE" ->
              LET ga == WithPB_double_value(a)
                  gb == WithPB_double_value(b)
              IN  Got2(ga, gb, CompareDouble(ga.ret, gb.ret))
         [] WithPB_type(a) = "STRING" ->
              LET ga == WithPB_string_value(a)
                  gb == WithPB_string_value(b)
              IN  Got2(ga, gb, string_compare(ga.ret, gb.ret))
         [] WithPB_type(a) = "BOOL" -> LogFatal(0)
         [] WithPB_type(a) = "TIMESTAMP" ->
              LET ga == WithPB_timestamp_value(a)
                  gb == WithPB_timestamp_value(b)
              IN  Got2(ga, gb, CompareInt64(ToInt64(ga.ret), ToInt64(gb.ret)))
         [] OTHER -> LogFatal(0)

\* YQLValue::operator<, >, <=, >=, ==, !=: BothNotNull(v) && CompareTo(v) op 0.
RelationalOperator(a, b, op) ==
  IF ~BothNotNull(a, b) THEN Ret(FALSE)
  ELSE OutcomeAgainstZero(CompareTo(a, b), op)

\* ------------------------------------------------------------------------
\* Setters, SetNull and assignment.

\* A setter that leaves an already active field of the oneof in place.
SetField_keepsActive(r, c, x) == IF r.case = "VALUE_NOT_SET" THEN PB(c, x) ELSE r

\* The protobuf setter of a oneof field: the field becomes the only one set.
SetField(r, c, x) == PB(c, x)

\* const char* arguments end at the first NUL byte.
CString(val) ==
  LET nul == {i \in 1..Len(val) : val[i] = 0}
  IN  IF nul = {} THEN val
      ELSE SubSeq(val, 1, (CHOOSE k \in nul : \A j \in nul : k <= j) - 1)

\* The static typed setters YQLValue::set_*_value(val, YQLValuePB*).
set_int8_value(val, r) == SetField(r, "kInt8Value", <<val>>)
set_int16_value(val, r) == SetField(r, "kInt16Value", <<val>>)
set_int32_value(val, r) == SetField(r, "kInt32Value", <<val>>)
set_int64_value(val, r) == SetField(r, "kInt64Value", val)
set_float_value(val, r) == SetField(r, "kFloatValue", val)
set_double_value(val, r) == SetField(r, "kDoubleValue", val)
set_bool_value(val, r) == SetField(r, "kBoolValue", <<IF val THEN 1 ELSE 0>>)
set_string_value(val, r) == SetField(r, "kStringValue", val)
set_string_value_cstr(val, r) == SetField(r, "kStringValue", CString(val))
set_string_value_size(val, size, r) == SetField(r, "kStringValue", SubSeq(val, 1, size))
set_timestamp_value(val, r) == SetField(r, "kTimestampValue", val)
set_timestamp_value_ts(val, r) == SetField(r, "kTimestampValue", ToInt64(val))

\* SetNull with the timestamp case returning before its clear.
SetNull_keepsTimestamp(r) == IF r.case = "kTimestampValue" THEN r ELSE NotSet

\* YQLValue::SetNull(YQLValuePB*): clear whichever field is set.
SetNull(r) ==
  CASE r.case = "kInt8Value" -> NotSet
    [] r.case = "kInt16Value" -> NotSet
    [] r.case = "kInt32Value" -> NotSet
    [] r.case = "kInt64Value" -> NotSet
    [] r.case = "kFloatValue" -> NotSet
    [] r.case = "kDoubleValue" -> NotSet
    [] r.case = "kStringValue" -> NotSet
    [] r.case = "kBoolValue" -> NotSet
    [] r.case = "kTimestampValue" -> NotSet
    [] r.case = "VALUE_NOT_SET" -> r

\* ------------------------------------------------------------------------
\* Byte order: Store8 / NetworkByteOrder::Store16, 32, 64 and the loads.

Store8(x) == <<x % 256>>
Store16(x) == Bytes16(x)
Store32(x) == <<(x \div (256 * Pow16)) % 256, (x \div Pow16) % 256, (x \div 256) % 256, x % 256>>
Store64(x) == Bytes16(x[1]) \o Bytes16(x[2]) \o Bytes16(x[3]) \o Bytes16(x[4])

\* Load8, and NetworkByteOrder::Load16 / 32 / 64 followed by the static_cast to
\* the signed type of the same width.
Load8(b) == b[1]
LoadInt16(b) == Cast16(Word16(b, 1))
LoadInt32(b) ==
  (IF b[1] >= 128 THEN b[1] - 256 ELSE b[1]) * (256 * Pow16) + b[2] * Pow16 + b[3] * 256 + b[4]
LoadInt64(b) == Signed64(<<Word16(b, 1), Word16(b, 3), Word16(b, 5), Word16(b, 7)>>)

\* The bit pattern of a float / double in network order, and back.
StoreFloat(f) ==
  <<f[1] * 128 + (f[2] \div 2), (f[2] % 2) * 128 + f[3]>> \o Bytes16(f[4])
StoreDouble(f) ==
  <<f[1] * 128 + (f[2] \div 16), (f[2] % 16) * 16 + f[3]>>
    \o Bytes16(f[4]) \o Bytes16(f[5]) \o Bytes16(f[6])
LoadFloat(b) == <<b[1] \div 128, (b[1] % 128) * 2 + (b[2] \div 128), b[2] % 128, Word16(b, 3)>>
LoadDouble(b) ==
  <<b[1] \div 128, (b[1] % 128) * 16 + (b[2] \div 16), b[2] % 16,
    Word16(b, 3), Word16(b, 5), Word16(b, 7)>>

\* ------------------------------------------------------------------------
\* The CQL wire primitives of yb/common/wire_protocol.h.

\* CQLEncodeLength: the 32-bit length in network byte order.
CQLEncodeLength(length, buf) == buf \o Store32(length)

\* CQLEncodeNum / CQLEncodeFloat: the length sizeof(num_type), then the stored bytes.
CQLEncodeNum(bytes, buf) == CQLEncodeLength(Len(bytes), buf) \o bytes

\* CQLEncodeBytes: the length of the string, then its bytes.
CQLEncodeBytes(val, buf) == CQLEncodeLength(Len(val), buf) \o val

\* static_cast<size_t>(len) > n for an int32_t len: a negative len is huge.
SizeTExceeds(len, n) == len < 0 \/ len > n

Decoded(status, bytes, rest) == [data |-> rest, status |-> status, bytes |-> bytes]

\* CQLDecodeNum / CQLDecodeFloat(len, converter, data, &val): len must be
\* sizeof(num_type) and that many bytes must remain; they are removed from data.
CQLDecodeNum(len, size, d) ==
  IF len # size THEN Decoded("error", <<>>, d)
  ELSE IF Len(d) < size THEN Decoded("error", <<>>, d)
  ELSE Decoded("ok", SubSeq(d, 1, size), SubSeq(d, size + 1, Len(d)))

\* CQLDecodeBytes(len, data, &val): len bytes must remain; they are removed.
CQLDecodeBytes(len, d) ==
  IF SizeTExceeds(len, Len(d)) THEN Decoded("error", <<>>, d)
  ELSE Decoded("ok", SubSeq(d, 1, len), SubSeq(d, len + 1, Len(d)))

\* ------------------------------------------------------------------------
\* Serialize.

Clients == {"YQL_CLIENT_CQL", "YQL_CLIENT_REDIS"}

\* The (type, client) pairs Deserialize is called with: every type for CQL, and
\* two types for the client it does not serve.
DeserializeCalls ==
  {<<t, "YQL_CLIENT_CQL">> : t \in DataTypes}
    \cup {<<"INT32", "YQL_CLIENT_REDIS">>, <<"STRING", "YQL_CLIENT_REDIS">>}

\* A null written as the empty value, length 0.
NullLength_empty == Len(<<>>)

\* The length that stands for null on the wire.
NullLength == -1

\* Every bit of the byte set for true.
BoolByte_allOnes(b) == IF b THEN 255 ELSE 0

\* bool_value() ? 1 : 0
BoolByte(b) == IF b THEN 1 ELSE 0

\* The wire value stored as it came, in milliseconds.
WireToInternal_unconverted(x) == x

\* The internal value written as it is, in microseconds.
InternalToWire_unconverted(x) == x

\* The timestamp conversions at the wire: internal precision to CQL's, and back.
InternalToWire(x) == AdjustPrecision(x, internal_precision, cql_input_precision)
WireToInternal(x) == AdjustPrecision(x, cql_input_precision, internal_precision)

Written(status, buf) == [buffer |-> buf, status |-> status]

\* YQLValue::Serialize(const YQLValuePB&, YQLClient, faststring*)
SerializePB(r, client, buf) ==
  IF client # "YQL_CLIENT_CQL" THEN Written(CheckFailed.status, buf)
  ELSE IF IsNull(r) THEN Written("ok", CQLEncodeLength(NullLength, buf))
  ELSE CASE r.case = "kInt8Value" -> Written("ok", CQLEncodeNum(Store8(Cast8(r.val[1])), buf))
         [] r.case = "kInt16Value" ->
              Written("ok", CQLEncodeNum(Store16(Cast16(r.val[1])), buf))
         [] r.case = "kInt32Value" -> Written("ok", CQLEncodeNum(Store32(r.val[1]), buf))
         [] r.case = "kInt64Value" -> Written("ok", CQLEncodeNum(Store64(r.val), buf))
         [] r.case = "kFloatValue" -> Written("ok", CQLEncodeNum(StoreFloat(r.val), buf))
         [] r.case = "kDoubleValue" -> Written("ok", CQLEncodeNum(StoreDouble(r.val), buf))
         [] r.case = "kStringValue" -> Written("ok", CQLEncodeBytes(r.val, buf))
         [] r.case = "kBoolValue" ->
              Written("ok", CQLEncodeNum(Store8(BoolByte(r.val[1] # 0)), buf))
         [] r.case = "kTimestampValue" ->
              Written("ok", CQLEncodeNum(Store64(InternalToWire(r.val)), buf))
         [] r.case = "VALUE_NOT_SET" -> Written(LogFatal(0).status, buf)

\* The bytes a getter's value is written as; a getter's abort is the call's.
WrittenGot(g, bytes, buf) ==
  IF g.status = "abort" THEN Written("abort", buf) ELSE Written("ok", CQLEncodeNum(bytes, buf))

\* Serialize that assigns the buffer instead of appending to it.
Serialize_overwrites(r, client, buf) ==
  IF client # "YQL_CLIENT_CQL" THEN Written(CheckFailed.status, buf)
  ELSE Written(SerializePB(r, client, <<>>).status, SerializePB(r, client, <<>>).buffer)

\* YQLValue::Serialize(YQLClient, faststring*) const
Serialize(r, client, buf) ==
  IF client # "YQL_CLIENT_CQL" THEN Written(CheckFailed.status, buf)
  ELSE IF WithPB_IsNull(r) THEN Written("ok", CQLEncodeLength(NullLength, buf))
  ELSE CASE WithPB_type(r) = "INT8" ->
              LET g == WithPB_int8_value(r) IN WrittenGot(g, Store8(g.ret), buf)
         [] WithPB_type(r) = "INT16" ->
              LET g == WithPB_int16_value(r) IN WrittenGot(g, Store16(g.ret), buf)
         [] WithPB_type(r) = "INT32" ->
              LET g == WithPB_int32_value(r) IN WrittenGot(g, Store32(g.ret), buf)
         [] WithPB_type(r) = "INT64" ->
              LET g == WithPB_int64_value(r) IN WrittenGot(g, Store64(g.ret), buf)
         [] WithPB_type(r) = "FLOAT" ->
              LET g == WithPB_float_value(r) IN WrittenGot(g, StoreFloat(g.ret), buf)
         [] WithPB_type(r) = "DOUBLE" ->
              LET g == WithPB_double_value(r) IN WrittenGot(g, StoreDouble(g.ret), buf)
         [] WithPB_type(r) = "STRING" ->
              LET g == WithPB_string_value(r)
              IN  IF g.status = "abort" THEN Written("abort", buf)
                  ELSE Written("ok", CQLEncodeBytes(g.ret, buf))
         [] WithPB_type(r) = "BOOL" ->
              LET g == WithPB_bool_value(r) IN WrittenGot(g, Store8(BoolByte(g.ret)), buf)
         [] WithPB_type(r) = "TIMESTAMP" ->
              LET g == WithPB_timestamp_value(r)
              IN  WrittenGot(g, Store64(InternalToWire(ToInt64(g.ret))), buf)
         [] OTHER -> Written(LogFatal(0).status, buf)

\* ------------------------------------------------------------------------
\* Deserialize.

\* A Deserialize that takes the whole slice, whatever the length read.
Read_wholeSlice(status, r, rest) == [v |-> r, data |-> <<>>, status |-> status]

Read(status, r, rest) == [v |-> r, data |-> rest, status |-> status]

\* sizeof(num_type) of the field a kind is deserialized into.
SizeOf(c) ==
  CASE c \in {"kInt8Value", "kBoolValue"} -> 1
    [] c = "kInt16Value" -> 2
    [] c \in {"kInt32Value", "kFloatValue"} -> 4
    [] c \in {"kInt64Value", "kDoubleValue", "kTimestampValue"} -> 8

\* The status of the decode dropped: the call returns OK and leaves v as it was.
CQLDeserializeNumPB_statusDropped(r, len, c, d) ==
  LET n == CQLDecodeNum(len, SizeOf(c), d)
  IN  IF n.status # "ok" THEN Read("ok", r, n.data)
      ELSE Read("ok", SetField(r, c, IF c = "kInt8Value" THEN <<Cast8(Load8(n.bytes))>>
                                     ELSE IF c = "kInt16Value" THEN <<LoadInt16(n.bytes)>>
                                     ELSE IF c = "kInt32Value" THEN <<LoadInt32(n.bytes)>>
                                     ELSE IF c = "kInt64Value" THEN LoadInt64(n.bytes)
                                     ELSE IF c = "kFloatValue" THEN LoadFloat(n.bytes)
                                     ELSE LoadDouble(n.bytes)),
                n.data)

\* The value cleared before the decode: an error leaves it null.
CQLDeserializeNumPB_clearsOnError(r, len, c, d) ==
  LET n == CQLDecodeNum(len, SizeOf(c), d)
  IN  IF n.status # "ok" THEN Read("error", SetNull(r), n.data)
      ELSE Read("ok", SetField(r, c, IF c = "kInt8Value" THEN <<Cast8(Load8(n.bytes))>>
                                     ELSE IF c = "kInt16Value" THEN <<LoadInt16(n.bytes)>>
                                     ELSE IF c = "kInt32Value" THEN <<LoadInt32(n.bytes)>>
                                     ELSE IF c = "kInt64Value" THEN LoadInt64(n.bytes)
                                     ELSE IF c = "kFloatValue" THEN LoadFloat(n.bytes)
                                     ELSE LoadDouble(n.bytes)),
                n.data)

\* The static YQLValue::CQLDeserializeNum / CQLDeserializeFloat(v, len, converter,
\* setter, data) with the converter and setter of field c: decode, then set.
CQLDeserializeNumPB(r, len, c, d) ==
  LET n == CQLDecodeNum(len, SizeOf(c), d)
  IN  IF n.status # "ok" THEN Read("error", r, n.data)
      ELSE CASE c = "kInt8Value" -> Read("ok", set_int8_value(Cast8(Load8(n.bytes)), r), n.data)
             [] c = "kInt16Value" -> Read("ok", set_int16_value(LoadInt16(n.bytes), r), n.data)
             [] c = "kInt32Value" -> Read("ok", set_int32_value(LoadInt32(n.bytes), r), n.data)
             [] c = "kInt64Value" -> Read("ok", set_int64_value(LoadInt64(n.bytes), r), n.data)
             [] c = "kFloatValue" -> Read("ok", set_float_value(LoadFloat(n.bytes), r), n.data)
             [] c = "kDoubleValue" -> Read("ok", set_double_value(LoadDouble(n.bytes), r), n.data)

\* YQLValue::Deserialize(YQLValuePB*, DataType, YQLClient, Slice*)
DeserializePB(r, data_type, client, d) ==
  IF client # "YQL_CLIENT_CQL" THEN Read(CheckFailed.status, r, d)
  ELSE
    LET l   == CQLDecodeNum(4, 4, d)
        len == LoadInt32(l.bytes)
    IN  IF l.status # "ok" THEN Read("error", r, l.data)
        ELSE IF len = NullLength THEN Read("ok", SetNull(r), l.data)
        ELSE
          CASE data_type = "INT8" -> CQLDeserializeNumPB(r, len, "kInt8Value", l.data)
            [] data_type = "INT16" -> CQLDeserializeNumPB(r, len, "kInt16Value", l.data)
            [] data_type = "INT32" -> CQLDeserializeNumPB(r, len, "kInt32Value", l.data)
            [] data_type = "INT64" -> CQLDeserializeNumPB(r, len, "kInt64Value", l.data)
            [] data_type = "FLOAT" -> CQLDeserializeNumPB(r, len, "kFloatValue", l.data)
            [] data_type = "DOUBLE" -> CQLDeserializeNumPB(r, len, "kDoubleValue", l.data)
            [] data_type = "STRING" ->
                 LET n == CQLDecodeBytes(len, l.data)
                 IN  IF n.status # "ok" THEN Read("error", r, n.data)
                     ELSE Read("ok", set_string_value(n.bytes, r), n.data)
            [] data_type = "BOOL" ->
                 LET n == CQLDecodeNum(len, SizeOf("kBoolValue"), l.data)
                 IN  IF n.status # "ok" THEN Read("error", r, n.data)
                     ELSE Read("ok", set_bool_value(Load8(n.bytes) # 0, r), n.data)
            [] data_type = "TIMESTAMP" ->
                 LET n == CQLDecodeNum(len, SizeOf("kTimestampValue"), l.data)
                 IN  IF n.status # "ok" THEN Read("error", r, n.data)
                     ELSE Read("ok",
                               SetField(r, "kTimestampValue", WireToInternal(LoadInt64(n.bytes))),
                               n.data)
            [] data_type \in UnsupportedTypes -> Read(LogFatal(0).status, r, l.data)

\* The slice cleared when the decode fails: what was left of the input is lost.
CQLDeserializeNum_clearsSlice(r, len, c, d) ==
  LET n == CQLDecodeNum(len, SizeOf(c), d)
  IN  IF n.status # "ok" THEN Read("error", r, <<>>)
      ELSE Read("ok", SetField(r, c, IF c = "kInt8Value" THEN <<Cast8(Load8(n.bytes))>>
                                     ELSE IF c = "kInt16Value" THEN <<LoadInt16(n.bytes)>>
                                     ELSE IF c = "kInt32Value" THEN <<LoadInt32(n.bytes)>>
                                     ELSE IF c = "kInt64Value" THEN LoadInt64(n.bytes)
                                     ELSE IF c = "kFloatValue" THEN LoadFloat(n.bytes)
                                     ELSE LoadDouble(n.bytes)),
                n.data)

\* The member YQLValue::CQLDeserializeNum / CQLDeserializeFloat(len, converter,
\* setter, data): the setter is the virtual one, which YQLValueWithPB forwards.
CQLDeserializeNum(r, len, c, d) ==
  LET n == CQLDecodeNum(len, SizeOf(c), d)
  IN  IF n.status # "ok" THEN Read("error", r, n.data)
      ELSE CASE c = "kInt8Value" -> Read("ok", set_int8_value(Cast8(Load8(n.bytes)), r), n.data)
             [] c = "kInt16Value" -> Read("ok", set_int16_value(LoadInt16(n.bytes), r), n.data)
             [] c = "kInt32Value" -> Read("ok", set_int32_value(LoadInt32(n.bytes), r), n.data)
             [] c = "kInt64Value" -> Read("ok", set_int64_value(LoadInt64(n.bytes), r), n.data)
             [] c = "kFloatValue" -> Read("ok", set_float_value(LoadFloat(n.bytes), r), n.data)
             [] c = "kDoubleValue" -> Read("ok", set_double_value(LoadDouble(n.bytes), r), n.data)

\* YQLValue::Deserialize(DataType, YQLClient, Slice*)
Deserialize(r, data_type, client, d) ==
  IF client # "YQL_CLIENT_CQL" THEN Read(CheckFailed.status, r, d)
  ELSE
    LET l   == CQLDecodeNum(4, 4, d)
        len == LoadInt32(l.bytes)
    IN  IF l.status # "ok" THEN Read("error", r, l.data)
        ELSE IF len = NullLength THEN Read("ok", SetNull(r), l.data)
        ELSE
          CASE data_type = "INT8" -> CQLDeserializeNum(r, len, "kInt8Value", l.data)
            [] data_type = "INT16" -> CQLDeserializeNum(r, len, "kInt16Value", l.data)
            [] data_type = "INT32" -> CQLDeserializeNum(r, len, "kInt32Value", l.data)
            [] data_type = "INT64" -> CQLDeserializeNum(r, len, "kInt64Value", l.data)
            [] data_type = "FLOAT" -> CQLDeserializeNum(r, len, "kFloatValue", l.data)
            [] data_type = "DOUBLE" -> CQLDeserializeNum(r, len, "kDoubleValue", l.data)
            [] data_type = "STRING" ->
                 LET n == CQLDecodeBytes(len, l.data)
                 IN  IF n.status # "ok" THEN Read("error", r, n.data)
                     ELSE Read("ok", set_string_value(n.bytes, r), n.data)
            [] data_type = "BOOL" ->
                 LET n == CQLDecodeNum(len, SizeOf("kBoolValue"), l.data)
                 IN  IF n.status # "ok" THEN Read("error", r, n.data)
                     ELSE Read("ok", set_bool_value(Load8(n.bytes) # 0, r), n.data)
            [] data_type = "TIMESTAMP" ->
                 LET n == CQLDecodeNum(len, SizeOf("kTimestampValue"), l.data)
                 IN  IF n.status # "ok" THEN Read("error", r, n.data)
                     ELSE Read("ok", set_timestamp_value(WireToInternal(LoadInt64(n.bytes)), r),
                               n.data)
            [] data_type \in UnsupportedTypes -> Read(LogFatal(0).status, r, l.data)

\* ------------------------------------------------------------------------
\* The state: v is a YQLValueWithPB, other a second one it is compared with,
\* buffer a faststring being written, data the Slice being read, last the
\* latest call on v: its name, its form (instance method or static function on
\* the record), its argument, the wire client, the buffer or slice it was given
\* and what it gave.

Call(op, form, arg, client, pre, status, ret) ==
  [status |-> status, ret |-> ret, op |-> op, client |-> client, form |-> form,
   arg |-> arg, pre |-> pre]

Init ==
  /\ v = NotSet
  /\ other = NotSet
  /\ buffer = <<>>
  /\ data = <<>>
  /\ last = Call("YQLValueWithPB", "instance", "-", "-", <<>>, "ok", 0)

\* A failed CHECK or LOG(FATAL) ends the process.
Alive == last.status # "abort"

\* A setter call on v with argument arg.  The caller writes v between reads,
\* while no slice is pending.
Set(op, arg, r) ==
  /\ Alive
  /\ data = <<>>
  /\ v' = r
  /\ last' = Call(op, "instance", arg, "-", <<>>, "ok", 0)
  /\ UNCHANGED <<other, buffer, data>>

\* const char* arguments: the strings, and one with a NUL byte inside.
CStringValues == StringValues \cup {<<97, 0, 98>>}

WithPB_set_int8_value == \E x \in Int8Values : Set("set_int8_value", x, set_int8_value(x, v))
WithPB_set_int16_value ==
  \E x \in Int16Values : Set("set_int16_value", x, set_int16_value(x, v))
WithPB_set_int32_value ==
  \E x \in Int32Values : Set("set_int32_value", x, set_int32_value(x, v))
WithPB_set_int64_value ==
  \E x \in Int64Values : Set("set_int64_value", x, set_int64_value(x, v))
WithPB_set_float_value ==
  \E x \in FloatValues : Set("set_float_value", x, set_float_value(x, v))
WithPB_set_double_value ==
  \E x \in DoubleValues : Set("set_double_value", x, set_double_value(x, v))
WithPB_set_bool_value == \E x \in BoolValues : Set("set_bool_value", x, set_bool_value(x, v))
WithPB_set_string_value ==
  \E x \in StringValues : Set("set_string_value", x, set_string_value(x, v))
WithPB_set_string_value_cstr ==
  \E x \in CStringValues :
    Set("set_string_value(const char*)", x, set_string_value_cstr(x, v))
WithPB_set_string_value_size ==
  \E x \in StringValues : \E n \in 0..Len(x) :
    Set("set_string_value(const char*, size_t)", <<x, n>>, set_string_value_size(x, n, v))
WithPB_set_timestamp_value ==
  \E x \in TimestampValues :
    Set("set_timestamp_value", x, set_timestamp_value(x, v))
WithPB_set_timestamp_value_ts ==
  \E x \in TimestampValues :
    Set("set_timestamp_value(const Timestamp&)", Timestamp(x),
        set_timestamp_value_ts(Timestamp(x), v))

\* YQLValueWithPB::SetNull
WithPB_SetNull ==
  /\ Alive
  /\ data = <<>>
  /\ v' = SetNull(v)
  /\ last' = Call("SetNull", "instance", "-", "-", v, "ok", 0)
  /\ UNCHANGED <<other, buffer, data>>

\* YQLValueWithPB::operator=(const YQLValuePB&) and operator=(YQLValuePB&&).
WithPB_Assign ==
  \E r \in ForeignRecords :
    /\ Alive
    /\ data = <<>>
    /\ v' = r
    /\ last' = Call("operator=", "instance", r, "-", <<>>, "ok", 0)
    /\ UNCHANGED <<other, buffer, data>>

\* The second value takes a state of its own.
OtherAssign ==
  \E r \in Records :
    /\ Alive
    /\ other' = r
    /\ last' = Call("other", "instance", "-", "-", <<>>, "ok", 0)
    /\ UNCHANGED <<v, buffer, data>>

Mutators ==
  \/ WithPB_set_int8_value
  \/ WithPB_set_int16_value
  \/ WithPB_set_int32_value
  \/ WithPB_set_int64_value
  \/ WithPB_set_float_value
  \/ WithPB_set_double_value
  \/ WithPB_set_bool_value
  \/ WithPB_set_string_value
  \/ WithPB_set_string_value_cstr
  \/ WithPB_set_string_value_size
  \/ WithPB_set_timestamp_value
  \/ WithPB_set_timestamp_value_ts
  \/ WithPB_SetNull
  \/ WithPB_Assign

\* ------------------------------------------------------------------------
\* Getter calls on v: the instance getter and the static one for field c.

CallGetter ==
  \E c \in ValueCases :
    LET g == WithPB_value(v, c)
    IN  /\ Alive
        /\ last' = Call("getter", "instance", c, "-", <<>>, g.status, g.ret)
        /\ UNCHANGED <<v, other, buffer, data>>

CallGetterPB ==
  \E c \in ValueCases :
    LET g == GetValue(v, c)
    IN  /\ Alive
        /\ last' = Call("getter", "static", c, "-", <<>>, g.status, g.ret)
        /\ UNCHANGED <<v, other, buffer, data>>

NextAccess == Mutators \/ CallGetter \/ CallGetterPB

SpecAccess == Init /\ [][NextAccess]_vars

\* ------------------------------------------------------------------------
\* Comparison calls on v and other.

\* A call that reads v and other and gives outcome o.
Compared(op, form, arg, o) ==
  /\ Alive
  /\ last' = Call(op, form, arg, "-", <<>>, o.status, o.ret)
  /\ UNCHANGED <<v, other, buffer, data>>

CallComparable == Compared("Comparable", "instance", "-", Ret(Comparable(v, other)))
CallComparablePB == Compared("Comparable", "static", "-", Ret(ComparablePB(v, other)))
CallCompareTo == Compared("CompareTo", "instance", "-", CompareTo(v, other))
CallCompareToPB == Compared("CompareTo", "static", "-", CompareToPB(v, other))
CallRelationalOperator ==
  \E op \in RelOps : Compared("operator", "instance", op, RelationalOperator(v, other, op))
CallYQL_COMPARE ==
  \E op \in RelOps : Compared("operator", "static", op, YQL_COMPARE(v, other, op))

Comparisons ==
  \/ OtherAssign
  \/ CallComparable
  \/ CallComparablePB
  \/ CallCompareTo
  \/ CallCompareToPB
  \/ CallRelationalOperator
  \/ CallYQL_COMPARE

NextCompare == Mutators \/ Comparisons

SpecCompare == Init /\ [][NextCompare]_vars

\* ------------------------------------------------------------------------
\* Serializing v into buffer and deserializing it from data.  A buffer is
\* written, handed over as the slice to read, and read: Serialize runs while
\* nothing is left to read.

\* Byte sequences a peer can send that no Serialize produces, or that carry
\* more or less than one value.
Inputs ==
  {<<>>, <<0, 0>>, <<0, 0, 0, 4, 0, 1>>, <<0, 0, 0, 2, 0, 0, 0, 5>>, <<0, 0, 0, 1, 2>>,
   <<0, 0, 0, 3, 97, 98>>, <<255, 255, 255, 254>>, <<128, 0, 0, 0, 0>>,
   <<255, 255, 255, 255, 9>>, <<0, 0, 0, 8, 127, 255, 255, 255, 255, 255, 255, 255>>,
   <<0, 0, 0, 1, 255, 0, 0, 0, 2, 97, 98>>}

CallSerialize ==
  \E client \in Clients :
    LET w == Serialize(v, client, buffer)
    IN  /\ Alive
        /\ data = <<>>
        /\ Len(buffer) <= MaxBuffer
        /\ buffer' = w.buffer
        /\ last' = Call("Serialize", "instance", "-", client, buffer, w.status, 0)
        /\ UNCHANGED <<v, other, data>>

CallSerializePB ==
  \E client \in Clients :
    LET w == SerializePB(v, client, buffer)
    IN  /\ Alive
        /\ data = <<>>
        /\ Len(buffer) <= MaxBuffer
        /\ buffer' = w.buffer
        /\ last' = Call("Serialize", "static", "-", client, buffer, w.status, 0)
        /\ UNCHANGED <<v, other, data>>

\* The bytes written become the slice to read.
Transmit ==
  /\ Alive
  /\ buffer # <<>>
  /\ data' = buffer
  /\ buffer' = <<>>
  /\ last' = Call("transmit", "-", "-", "-", <<>>, "ok", 0)
  /\ UNCHANGED <<v, other>>

\* The slice to read comes from a peer.
Receive ==
  \E in \in Inputs :
    /\ Alive
    /\ buffer = <<>>
    /\ data' = in
    /\ last' = Call("receive", "-", "-", "-", <<>>, "ok", 0)
    /\ UNCHANGED <<v, other, buffer>>

CallDeserialize ==
  \E call \in DeserializeCalls :
    LET data_type == call[1]
        client    == call[2]
        r         == Deserialize(v, data_type, client, data)
    IN  /\ Alive
        /\ buffer = <<>>
        /\ v' = r.v
        /\ data' = r.data
        /\ last' = Call("Deserialize", "instance", data_type, client, data, r.status, 0)
        /\ UNCHANGED <<other, buffer>>

CallDeserializePB ==
  \E call \in DeserializeCalls :
    LET data_type == call[1]
        client    == call[2]
        r         == DeserializePB(v, data_type, client, data)
    IN  /\ Alive
        /\ buffer = <<>>
        /\ v' = r.v
        /\ data' = r.data
        /\ last' = Call("Deserialize", "static", data_type, client, data, r.status, 0)
        /\ UNCHANGED <<other, buffer>>

\* Writing alone: values are appended to the buffer one behind the other.
NextSerialize == Mutators \/ CallSerialize \/ CallSerializePB

SpecSerialize == Init /\ [][NextSerialize]_vars

\* Writing and reading: a buffer that is handed over carries one value.
Codec ==
  \/ (buffer = <<>> /\ CallSerialize)
  \/ (buffer = <<>> /\ CallSerializePB)
  \/ Transmit
  \/ Receive
  \/ CallDeserialize
  \/ CallDeserializePB

NextCodec == Mutators \/ Codec

SpecCodec == Init /\ [][NextCodec]_vars

\* ========================================================================
\* Properties of Serialize, checked under SpecSerialize, and of Deserialize
\* behind it, checked under SpecCodec.

CQL == "YQL_CLIENT_CQL"

\* The nine kinds the codec handles.
SupportedKinds ==
  {"INT8", "INT16", "INT32", "INT64", "FLOAT", "DOUBLE", "STRING", "BOOL", "TIMESTAMP"}

\* The kinds written with a fixed width, and the width of each.
FixedWidth(k) ==
  CASE k \in {"INT8", "BOOL"} -> 1
    [] k = "INT16" -> 2
    [] k \in {"INT32", "FLOAT"} -> 4
    [] k \in {"INT64", "DOUBLE", "TIMESTAMP"} -> 8

\* The values of the nine kinds: what the typed setters store.
TypedValues == UNION {{PB(c, x) : x \in FieldValues(c)} : c \in ValueCases}

\* The bytes Serialize writes for x into an empty buffer.
Encoding(x) == SerializePB(x, CQL, <<>>).buffer

\* m mod 1000 of an unsigned 64-bit m given as limbs.
Rem1000(m) ==
  LET r1 == m[1] % 1000
      r2 == (r1 * Pow16 + m[2]) % 1000
      r3 == (r2 * Pow16 + m[3]) % 1000
  IN  (r3 * Pow16 + m[4]) % 1000

\* m + k of an unsigned 64-bit m given as limbs and a small k.
AddSmall(m, k) ==
  LET n0 == m[4] + k
      n1 == m[3] + (n0 \div Pow16)
      n2 == m[2] + (n1 \div Pow16)
      n3 == m[1] + (n2 \div Pow16)
  IN  <<n3, n2 % Pow16, n1 % Pow16, n0 % Pow16>>

\* t is x with the digits below a millisecond dropped (x in microseconds).
TruncatedToMillis(x, t) ==
  /\ Rem1000(Magnitude64(t)) = 0
  /\ AddSmall(Magnitude64(t), Rem1000(Magnitude64(x))) = Magnitude64(x)
  /\ (t = Zero64 \/ (t[1] < 0) = (x[1] < 0))

\* The latest call read, as kind k, the bytes Serialize writes for x.
ReadBack(x, k) ==
  /\ last.op = "Deserialize"
  /\ last.client = CQL
  /\ last.arg = k
  /\ last.pre = Encoding(x)

Appended == SubSeq(buffer, Len(last.pre) + 1, Len(buffer))

\* The number a 4-byte big-endian two's-complement field holds.
BigEndian32(b) ==
  (IF b[1] >= 128 THEN b[1] - 256 ELSE b[1]) * 256 * Pow16 + b[2] * Pow16 + b[3] * 256 + b[4]

\* The payload p is the value x of its kind in network byte order.
PayloadOf(x, p) ==
  CASE x.case = "kInt8Value" -> p = <<IF x.val[1] < 0 THEN x.val[1] + 256 ELSE x.val[1]>>
    [] x.case = "kInt16Value" ->
         p[1] * 256 + p[2] = (IF x.val[1] < 0 THEN x.val[1] + Pow16 ELSE x.val[1])
    [] x.case = "kInt32Value" -> BigEndian32(p) = x.val[1]
    [] x.case = "kInt64Value" -> LoadInt64(p) = x.val
    [] x.case = "kFloatValue" -> LoadFloat(p) = x.val
    [] x.case = "kDoubleValue" -> LoadDouble(p) = x.val
    [] x.case = "kStringValue" -> p = x.val
    [] x.case = "kBoolValue" -> p = (IF x.val[1] # 0 THEN <<1>> ELSE <<0>>)
    [] x.case = "kTimestampValue" -> TRUE

\* C2: Serialize of a non-null value appends a 4-byte big-endian length and
\* exactly that many payload bytes: the fixed width of the kind with the value
\* in network byte order, or for a String its byte count and its bytes.
C2_SerializeLayout ==
  (last.op = "Serialize" /\ last.client = CQL /\ v \in TypedValues) =>
    /\ last.status = "ok"
    /\ SubSeq(buffer, 1, Len(last.pre)) = last.pre
    /\ Len(Appended) >= 4
    /\ \A i \in 1..Len(Appended) : Appended[i] \in 0..255
    /\ LET n       == Len(Appended) - 4
           payload == SubSeq(Appended, 5, Len(Appended))
       IN  /\ SubSeq(Appended, 1, 4) = <<0, 0, 0, n>>
           /\ type(v) # "STRING" => n = FixedWidth(type(v))
           /\ PayloadOf(v, payload)
    /\ v = PB("kInt32Value", <<-1>>) => Appended = <<0, 0, 0, 4, 255, 255, 255, 255>>
    /\ v = PB("kStringValue", <<97, 98>>) => Appended = <<0, 0, 0, 2, 97, 98>>
    /\ v = PB("kBoolValue", <<1>>) => Appended = <<0, 0, 0, 1, 1>>
    /\ v = PB("kInt16Value", <<258>>) => Appended = <<0, 0, 0, 2, 1, 2>>

\* Bool(true) was serialized behind an earlier value.
C2_Witness ==
  /\ last.op = "Serialize"
  /\ last.status = "ok"
  /\ last.pre # <<>>
  /\ v = PB("kBoolValue", <<1>>)
  /\ buffer = last.pre \o <<0, 0, 0, 1, 1>>

\* C3: Serialize of a null value appends exactly FF FF FF FF and no payload, in
\* the instance form and in the static form on the record.
C3_NullSerialize ==
  (last.op = "Serialize" /\ last.client = CQL /\ IsNull(v)) =>
    /\ last.status = "ok"
    /\ buffer = last.pre \o <<255, 255, 255, 255>>

\* A null was serialized by the static form behind an earlier value.
C3_Witness ==
  /\ last.op = "Serialize"
  /\ last.form = "static"
  /\ last.status = "ok"
  /\ IsNull(v)
  /\ last.pre # <<>>
  /\ buffer = last.pre \o <<255, 255, 255, 255>>

\* The length the first four bytes of d declare.
DeclaredLength(d) == BigEndian32(SubSeq(d, 1, 4))

\* C4: for a supported kind Deserialize succeeds or returns an error and never
\* aborts; it returns an error when fewer than 4 bytes remain, when the length
\* of a fixed-width kind is neither the width nor -1, and when fewer payload
\* bytes remain than the length declares.
C4_DeserializeRecoverable ==
  (last.op = "Deserialize" /\ last.client = CQL /\ last.arg \in SupportedKinds) =>
    /\ last.status \in {"ok", "error"}
    /\ Len(last.pre) < 4 => last.status = "error"
    /\ Len(last.pre) >= 4 =>
         LET len == DeclaredLength(last.pre)
         IN  /\ (last.arg # "STRING" /\ len \notin {-1, FixedWidth(last.arg)}) =>
                  last.status = "error"
             /\ (len >= 0 /\ Len(last.pre) - 4 < len) => last.status = "error"

\* An Int32 of declared length 4 with 2 bytes left was refused.
C4_Witness ==
  /\ last.op = "Deserialize"
  /\ last.arg = "INT32"
  /\ last.pre = <<0, 0, 0, 4, 0, 1>>
  /\ last.status = "error"

\* ========================================================================
\* Properties of the comparison functions, checked under SpecCompare.

\* The comparison function of the form (instance method or static) last called.
CompareToOf(form, a, b) == IF form = "instance" THEN CompareTo(a, b) ELSE CompareToPB(a, b)

\* The int8 / int16 fields hold numbers of their kind.
InRange(r) ==
  /\ r.case = "kInt8Value" => r.val[1] \in -128..127
  /\ r.case = "kInt16Value" => r.val[1] \in -32768..32767

\* Two non-null values of the same kind, which is not Bool.
SameOrderableKind(a, b) ==
  a.case = b.case /\ a.case \notin {"VALUE_NOT_SET", "kBoolValue"}

\* Byte-lexicographic order of two strings, bytes unsigned.
ByteLexLess(a, b) ==
  \E i \in 1..(Len(b)) :
    /\ \A j \in 1..(i - 1) : j <= Len(a) /\ a[j] = b[j]
    /\ (i > Len(a) \/ (i - 1 < Len(a) /\ a[i] < b[i]))

\* a is smaller than b in the order of their kind.
Smaller(a, b) ==
  CASE a.case \in {"kInt8Value", "kInt16Value", "kInt32Value"} -> a.val[1] < b.val[1]
    [] a.case \in {"kInt64Value", "kTimestampValue"} -> Less64(a.val, b.val)
    [] a.case = "kFloatValue" -> LessFloat(a.val, b.val)
    [] a.case = "kDoubleValue" -> LessDouble(a.val, b.val)
    [] a.case = "kStringValue" -> ByteLexLess(a.val, b.val)

IsNaNValue(r) ==
  \/ r.case = "kFloatValue" /\ IsNaN(FloatEMax, r.val)
  \/ r.case = "kDoubleValue" /\ IsNaN(DoubleEMax, r.val)

\* C5: each of the six relational operators, of the instance and of the bare
\* record, returns false without aborting when at least one operand is null.
C5_NullComparesFalse ==
  (last.op = "operator" /\ (IsNull(v) \/ IsNull(other)))
    => (last.status = "ok" /\ last.ret = FALSE)

\* C5 witness: the record operator != was applied to a null and a Bool.
C5_Witness ==
  /\ last.op = "operator" /\ last.form = "static" /\ last.arg = "!="
  /\ IsNull(v) /\ other.case = "kBoolValue"
  /\ last.status = "ok"

\* C6 as stated: CompareTo of two non-null values of one orderable kind returns
\* -1, 0 or 1: -1 when the first is smaller, 1 when it is greater, 0 when equal.
C6_ReturnsMinusOneZeroOne ==
  (last.op = "CompareTo" /\ SameOrderableKind(v, other) /\ InRange(v) /\ InRange(other))
    => /\ last.status = "ok"
       /\ last.ret \in {-1, 0, 1}
       /\ Smaller(v, other) => last.ret = -1
       /\ Smaller(other, v) => last.ret = 1
       /\ v.val = other.val => last.ret = 0

\* C6 amended: the result is negative when the first is smaller, positive when it
\* is greater, 0 when equal; it is -1, 0 or 1 for every kind but String.
\* CompareTo(Int32(3), Int32(5)) is -1 and CompareTo("b", "a") is positive.
C6_ReturnsSign ==
  (last.op = "CompareTo" /\ SameOrderableKind(v, other) /\ InRange(v) /\ InRange(other))
    => /\ last.status = "ok"
       /\ v.case # "kStringValue" => last.ret \in {-1, 0, 1}
       /\ Smaller(v, other) => last.ret < 0
       /\ Smaller(other, v) => last.ret > 0
       /\ v.val = other.val => last.ret = 0
       /\ (v = PB("kInt32Value", <<3>>) /\ other = PB("kInt32Value", <<5>>)) => last.ret = -1
       /\ (v = PB("kStringValue", <<98>>) /\ other = PB("kStringValue", <<97>>))
            => last.ret > 0

\* C6 witness: CompareTo(Int32(3), Int32(5)) returned -1.
C6_Witness ==
  /\ last.op = "CompareTo" /\ last.status = "ok" /\ last.ret = -1
  /\ v = PB("kInt32Value", <<3>>) /\ other = PB("kInt32Value", <<5>>)

\* C7 as stated: on the non-null values of an orderable kind CompareTo is
\* antisymmetric, reflexive and transitive, for all a, b, c of the kind.
C7_Ordering ==
  (last.op = "CompareTo" /\ SameOrderableKind(v, other))
    => /\ last.status = "ok"
       /\ last.ret = -CompareToOf(last.form, other, v).ret
       /\ CompareToOf(last.form, v, v).ret = 0
       /\ \A c \in Records :
            (c.case = v.case /\ last.ret <= 0 /\ CompareToOf(last.form, other, c).ret <= 0)
              => CompareToOf(last.form, v, c).ret <= 0

\* C7 amended: CompareTo(a,b) = -CompareTo(b,a) and CompareTo(a,a) = 0 for all a, b
\* of the kind; CompareTo(a,b) <= 0 and CompareTo(b,c) <= 0 imply
\* CompareTo(a,c) <= 0 provided b is not a NaN.
C7_OrderingButNaN ==
  (last.op = "CompareTo" /\ SameOrderableKind(v, other))
    => /\ last.status = "ok"
       /\ last.ret = -CompareToOf(last.form, other, v).ret
       /\ CompareToOf(last.form, v, v).ret = 0
       /\ \A c \in Records :
            (/\ c.case = v.case
             /\ ~IsNaNValue(other)
             /\ last.ret <= 0
             /\ CompareToOf(last.form, other, c).ret <= 0)
              => CompareToOf(last.form, v, c).ret <= 0

\* C7 witness: CompareTo(a, b) returned -1 for two doubles, and b is below a third.
C7_Witness ==
  /\ last.op = "CompareTo" /\ last.status = "ok" /\ last.ret = -1
  /\ v.case = "kDoubleValue" /\ other.case = "kDoubleValue"
  /\ \E c \in Records : c.case = "kDoubleValue" /\ CompareToOf(last.form, other, c).ret = -1

\* C8: CompareTo aborts when the operands differ in kind or either is null, and
\* so does every relational operator on two non-null values of different kinds.
C8_MismatchAborts ==
  /\ (last.op = "CompareTo" /\ (type(v) # type(other) \/ IsNull(v) \/ IsNull(other)))
       => last.status = "abort"
  /\ (last.op = "operator" /\ ~IsNull(v) /\ ~IsNull(other) /\ type(v) # type(other))
       => last.status = "abort"

\* C8 witness: a relational operator on two non-null values of different kinds aborted.
C8_Witness ==
  /\ last.op = "operator" /\ last.status = "abort"
  /\ ~IsNull(v) /\ ~IsNull(other) /\ type(v) # type(other)

\* C9: CompareTo of two non-null Bool values aborts, and so does each relational
\* operator on them, == and != on equal booleans included.
C9_BoolAborts ==
  (last.op \in {"CompareTo", "operator"} /\ v.case = "kBoolValue" /\ other.case = "kBoolValue")
    => last.status = "abort"

\* C9 witness: == on two equal booleans aborted.
C9_Witness ==
  /\ last.op = "operator" /\ last.arg = "==" /\ last.status = "abort"
  /\ v.case = "kBoolValue" /\ other = v

\* C10: Comparable(a, b) returns, and returns true exactly when a and b have the
\* same kind or at least one of them is null.
C10_Comparable ==
  last.op = "Comparable"
    => /\ last.status = "ok"
       /\ last.ret = (v.case = other.case \/ IsNull(v) \/ IsNull(other))

\* C10 witness: Comparable was true of a null and a non-null value.
C10_Witness ==
  /\ last.op = "Comparable" /\ last.form = "instance" /\ last.status = "ok"
  /\ IsNull(v) /\ ~IsNull(other) /\ last.ret = TRUE

\* ========================================================================
\* Properties of the getters, the setters and SetNull, checked under SpecAccess.

\* The payload of a record as its getter's type gives it.
StoredPayload(r) ==
  CASE r.case \in {"kInt8Value", "kInt16Value", "kInt32Value"} -> r.val[1]
    [] r.case = "kBoolValue" -> r.val[1] # 0
    [] r.case = "kTimestampValue" -> [value_ |-> r.val]
    [] OTHER -> r.val

\* C11: a typed getter returns the stored payload when the value is non-null
\* and its active kind is the getter's kind, and aborts in every other case:
\* when the value is null and when another kind is active.
C11_GetterReturnsOrAborts ==
  last.op = "getter" =>
    IF v.case = last.arg
    THEN last.status = "ok" /\ (v \in TypedValues => last.ret = StoredPayload(v))
    ELSE last.status = "abort"

\* The string getter of a value holding "ab" returned "ab".
C11_Witness ==
  /\ last.op = "getter"
  /\ last.status = "ok"
  /\ last.arg = "kStringValue"
  /\ last.form = "instance"
  /\ v = PB("kStringValue", <<97, 98>>)
  /\ last.ret = <<97, 98>>

\* The setters by name, with the field each one sets.
SetterCase(op) ==
  CASE op = "set_int8_value" -> "kInt8Value"
    [] op = "set_int16_value" -> "kInt16Value"
    [] op = "set_int32_value" -> "kInt32Value"
    [] op = "set_int64_value" -> "kInt64Value"
    [] op = "set_float_value" -> "kFloatValue"
    [] op = "set_double_value" -> "kDoubleValue"
    [] op = "set_bool_value" -> "kBoolValue"
    [] op \in {"set_string_value", "set_string_value(const char*)",
               "set_string_value(const char*, size_t)"} -> "kStringValue"
    [] op \in {"set_timestamp_value", "set_timestamp_value(const Timestamp&)"} ->
         "kTimestampValue"
    [] OTHER -> "VALUE_NOT_SET"

SetterKind(op) ==
  CASE SetterCase(op) = "kInt8Value" -> "INT8"
    [] SetterCase(op) = "kInt16Value" -> "INT16"
    [] SetterCase(op) = "kInt32Value" -> "INT32"
    [] SetterCase(op) = "kInt64Value" -> "INT64"
    [] SetterCase(op) = "kFloatValue" -> "FLOAT"
    [] SetterCase(op) = "kDoubleValue" -> "DOUBLE"
    [] SetterCase(op) = "kBoolValue" -> "BOOL"
    [] SetterCase(op) = "kStringValue" -> "STRING"
    [] SetterCase(op) = "kTimestampValue" -> "TIMESTAMP"

\* The bytes of a C string: those before its first NUL.
RECURSIVE UpToNul(_)
UpToNul(s) ==
  IF s = <<>> \/ Head(s) = 0 THEN <<>> ELSE <<Head(s)>> \o UpToNul(Tail(s))

\* What the getter of the setter's kind has to return, from the setter's argument.
SetterPayload(op, arg) ==
  CASE op = "set_string_value(const char*)" -> UpToNul(arg)
    [] op = "set_string_value(const char*, size_t)" -> [i \in 1..arg[2] |-> arg[1][i]]
    [] op = "set_timestamp_value" -> [value_ |-> arg]
    [] OTHER -> arg

\* C12: every typed setter succeeds from any prior state, and after set_K(x)
\* IsNull is false, type() is K, the getter of K returns x and every other
\* getter aborts.
C12_SetterThenGetters ==
  SetterCase(last.op) # "VALUE_NOT_SET" =>
    /\ last.status = "ok"
    /\ ~WithPB_IsNull(v)
    /\ WithPB_type(v) = SetterKind(last.op)
    /\ \A c \in ValueCases :
         LET g == WithPB_value(v, c)
         IN  IF c = SetterCase(last.op)
             THEN g.status = "ok" /\ g.ret = SetterPayload(last.op, last.arg)
             ELSE g.status = "abort"

\* set_string_value("a\0b") was called: the value is the String "a".
C12_Witness ==
  /\ last.op = "set_string_value(const char*)"
  /\ last.arg = <<97, 0, 98>>
  /\ WithPB_type(v) = "STRING"
  /\ WithPB_string_value(v) = Ret(<<97>>)
  /\ WithPB_int64_value(v).status = "abort"

\* C13: SetNull clears whichever field is active, so IsNull is true after it;
\* on a value that is already null it changes nothing, and it never aborts.
C13_SetNullClears ==
  last.op = "SetNull" =>
    /\ last.status = "ok"
    /\ WithPB_IsNull(v)
    /\ v = NotSet
    /\ \A c \in ValueCases : WithPB_value(v, c).status = "abort"
    /\ (WithPB_IsNull(last.pre) => v = last.pre)

\* SetNull on a value that held the timestamp INT64_MAX.
C13_Witness ==
  /\ last.op = "SetNull"
  /\ last.pre = PB("kTimestampValue", INT64_MAX)
  /\ WithPB_IsNull(v)

\* SetNull on a value that was null already.
C13_WitnessIdempotent ==
  /\ last.op = "SetNull"
  /\ last.pre = NotSet
  /\ v = NotSet

\* ========================================================================
\* Properties of the failure paths of the codec, checked under SpecCodec.

\* The kinds the codec refuses.
UnsupportedKinds == {"UINT8", "UINT16", "UINT32", "UINT64", "BINARY", "UNKNOWN_DATA"}

\* The fixed-width kinds.
FixedWidthKinds == SupportedKinds \ {"STRING"}

\* C14 as stated: Deserialize with a declared kind of the unsupported set
\* is fatal and returns no status, whatever the input bytes are.
C14_UnsupportedAlwaysFatal ==
  (last.op = "Deserialize" /\ last.arg \in UnsupportedKinds) => last.status = "abort"

\* C14, amended: Deserialize with a declared kind of the unsupported set reads
\* the length first; it returns an error when fewer than 4 bytes remain, it
\* sets the value null and succeeds when the length is -1, and it is fatal in
\* every other case.
C14_UnsupportedFatalAfterLength ==
  (last.op = "Deserialize" /\ last.client = CQL /\ last.arg \in UnsupportedKinds) =>
    IF Len(last.pre) < 4 THEN last.status = "error"
    ELSE IF DeclaredLength(last.pre) = -1
      THEN /\ last.status = "ok"
           /\ WithPB_IsNull(v)
           /\ data = SubSeq(last.pre, 5, Len(last.pre))
      ELSE last.status = "abort"

\* Deserialize as Binary of a one-byte value ended the process.
C14_Witness ==
  /\ last.op = "Deserialize"
  /\ last.arg = "BINARY"
  /\ last.pre = <<0, 0, 0, 1, 2>>
  /\ last.status = "abort"

\* C15 as stated: after a recoverable error of a fixed-width kind the
\* destination is null, whatever it held before the call.
C15_ErrorLeavesNull ==
  (last.op = "Deserialize" /\ last.status = "error" /\ last.arg \in FixedWidthKinds) =>
    WithPB_IsNull(v)

\* C15, amended: a Deserialize of a fixed-width kind that returns a recoverable
\* error leaves the destination exactly as it was before the call: null if it
\* was null, and holding its former kind and payload otherwise.
C15_ErrorLeavesValue ==
  [][(last'.op = "Deserialize" /\ last'.status = "error" /\ last'.arg \in FixedWidthKinds)
       => v' = v]_vars

\* An Int32 of declared length 4 with 2 bytes left was refused, and the
\* destination still holds the string "ab".
C15_Witness ==
  /\ last.op = "Deserialize"
  /\ last.status = "error"
  /\ last.arg = "INT32"
  /\ last.pre = <<0, 0, 0, 4, 0, 1>>
  /\ v = PB("kStringValue", <<97, 98>>)

\* C16: Serialize and Deserialize abort for every client other than CQL, and
\* before any other effect: nothing is appended to the buffer, no byte of the
\* input is consumed and the value is unchanged, also when it is null.
C16_OtherClientAborts ==
  [][(last'.op \in {"Serialize", "Deserialize"} /\ last'.client # CQL) =>
       /\ last'.status = "abort"
       /\ buffer' = buffer
       /\ data' = data
       /\ v' = v]_vars

\* Deserialize for another client aborted with a null destination and all 5
\* bytes of the input left.
C16_Witness ==
  /\ last.op = "Deserialize"
  /\ last.client = "YQL_CLIENT_REDIS"
  /\ last.status = "abort"
  /\ WithPB_IsNull(v)
  /\ last.pre = <<0, 0, 0, 1, 2>>
  /\ data = last.pre

\* Serialize of a null value for another client aborted with nothing written.
C16_WitnessSerialize ==
  /\ last.op = "Serialize"
  /\ last.client = "YQL_CLIENT_REDIS"
  /\ last.status = "abort"
  /\ WithPB_IsNull(v)
  /\ buffer = <<>>

\* ========================================================================
\* The precision of a Timestamp at the wire, checked under SpecCodec.

\* The latest call read the bytes Serialize writes for the Timestamp x.
TimestampReadBack(x) == ReadBack(PB("kTimestampValue", x), "TIMESTAMP")

C18_SerializeAppends ==
  [][(last'.op = "Serialize" /\ last'.status = "ok") =>
       /\ v' = v
       /\ buffer' = buffer \o Encoding(v)
       /\ SubSeq(buffer', 1, Len(buffer)) = buffer]_vars

\* A null and then the String "ab" were serialized into one buffer.
C18_Witness ==
  /\ last.op = "Serialize"
  /\ last.status = "ok"
  /\ last.pre = Encoding(NotSet)
  /\ v = PB("kStringValue", <<97, 98>>)
  /\ buffer = <<255, 255, 255, 255, 0, 0, 0, 2, 97, 98>>

\* ========================================================================
\* Deserialize as the reading of one value, checked under SpecCodec.

\* d begins with the bytes p.
StartsWith(d, p) == Len(d) >= Len(p) /\ SubSeq(d, 1, Len(p)) = p

\* d without its first n bytes.
DropFirst(d, n) == SubSeq(d, n + 1, Len(d))

FormsAgreeButCompareTo ==
  /\ WithPB_type(v) = type(v)
  /\ WithPB_IsNull(v) = IsNull(v)
  /\ Comparable(v, other) = ComparablePB(v, other)
  /\ \A client \in Clients : Serialize(v, client, buffer) = SerializePB(v, client, buffer)
  /\ \A call \in DeserializeCalls :
       Deserialize(v, call[1], call[2], data) = DeserializePB(v, call[1], call[2], data)

\* CompareTo and the relational operators give the same outcome in both forms.
FormsAgreeOnCompareTo ==
  /\ CompareTo(v, other) = CompareToPB(v, other)
  /\ \A op \in RelOps : RelationalOperator(v, other, op) = YQL_COMPARE(v, other, op)

\* The forms agree on CompareTo unless an operand holds an int8 / int16 field
\* outside the range of its type.
FormsAgreeOnCompareToInRange ==
  (InRange(v) /\ InRange(other)) => FormsAgreeOnCompareTo

\* C20: for every state of a YQLValueWithPB, each of type, IsNull, Comparable,
\* CompareTo, the relational operators, Serialize and Deserialize gives the
\* same outcome as an instance method and as the static function applied to
\* the underlying record.
C20_FormsAgree == FormsAgreeButCompareTo /\ FormsAgreeOnCompareTo

\* The record with int8_value 300 against the Int8 127: the instance
\* CompareTo gives -1 and the static one gives 1.
C20_Diverged ==
  /\ v = PB("kInt8Value", <<300>>)
  /\ other = PB("kInt8Value", <<127>>)
  /\ CompareTo(v, other) = Ret(-1)
  /\ CompareToPB(v, other) = Ret(1)

\* ========================================================================
\* The kind and the nullness of a YQLValueWithPB, checked under SpecCodec.

\* The kind whose getter reads field c.
GetterKind(c) ==
  CASE c = "kInt8Value" -> "INT8"
    [] c = "kInt16Value" -> "INT16"
    [] c = "kInt32Value" -> "INT32"
    [] c = "kInt64Value" -> "INT64"
    [] c = "kFloatValue" -> "FLOAT"
    [] c = "kDoubleValue" -> "DOUBLE"
    [] c = "kStringValue" -> "STRING"
    [] c = "kBoolValue" -> "BOOL"
    [] c = "kTimestampValue" -> "TIMESTAMP"

\* C21: in every state reachable by the typed setters, SetNull, assignment
\* from a record and Deserialize, IsNull() is true exactly when type() is
\* Unknown, type() is never one of Uint8 .. Binary, and a non-null value has
\* exactly one getter that succeeds, the one of type(); after an assignment
\* from a record, type, nullness and payload are those of the record.
C21_KindFollowsActiveField ==
  /\ WithPB_IsNull(v) <=> (WithPB_type(v) = "UNKNOWN_DATA")
  /\ WithPB_type(v) \notin {"UINT8", "UINT16", "UINT32", "UINT64", "BINARY"}
  /\ \A c \in ValueCases :
       (WithPB_value(v, c).status = "ok") <=>
         (~WithPB_IsNull(v) /\ GetterKind(c) = WithPB_type(v))
  /\ last.op = "operator=" =>
       /\ v = last.arg
       /\ WithPB_type(v) = type(last.arg)
       /\ WithPB_IsNull(v) = IsNull(last.arg)
       /\ \A c \in ValueCases : WithPB_value(v, c) = GetValue(last.arg, c)

\* The record holding Bool true was assigned: the value is a Bool, and true.
C21_Witness ==
  /\ last.op = "operator="
  /\ last.arg = PB("kBoolValue", <<1>>)
  /\ WithPB_type(v) = "BOOL"
  /\ ~WithPB_IsNull(v)
  /\ WithPB_bool_value(v) = Ret(TRUE)

\* A Deserialize as Int16 replaced a value of another kind.
C21_WitnessDeserialize ==
  /\ last.op = "Deserialize"
  /\ last.status = "ok"
  /\ last.arg = "INT16"
  /\ WithPB_type(v) = "INT16"
  /\ WithPB_int16_value(v).status = "ok"
  /\ WithPB_int32_value(v).status = "abort"

\* ========================================================================
\* The six relational operators against each other, checked under SpecCompare.

\* The operator op of one form on a and b.
OperatorOf(form, a, b, op) ==
  IF form = "instance" THEN RelationalOperator(a, b, op) ELSE YQL_COMPARE(a, b, op)

\* The number of TRUE among three booleans.
HowManyOf(p, q, r) == (IF p THEN 1 ELSE 0) + (IF q THEN 1 ELSE 0) + (IF r THEN 1 ELSE 0)

\* C22: for two non-null values a, b of one orderable kind, in the instance
\* form and in the static form, exactly one of a < b, a == b, a > b is true,
\* a <= b equals (a < b or a == b), a >= b equals (a > b or a == b), and
\* a != b equals not (a == b); an operator that is called returns that result.
C22_OperatorsConsistent ==
  SameOrderableKind(v, other) =>
    /\ \A form \in {"instance", "static"} :
         LET lt == OperatorOf(form, v, other, "<")
             eq == OperatorOf(form, v, other, "==")
             gt == OperatorOf(form, v, other, ">")
             le == OperatorOf(form, v, other, "<=")
             ge == OperatorOf(form, v, other, ">=")
             ne == OperatorOf(form, v, other, "!=")
         IN  /\ \A o \in {lt, eq, gt, le, ge, ne} : o.status = "ok" /\ o.ret \in BOOLEAN
             /\ HowManyOf(lt.ret, eq.ret, gt.ret) = 1
             /\ le.ret = (lt.ret \/ eq.ret)
             /\ ge.ret = (gt.ret \/ eq.ret)
             /\ ne.ret = ~eq.ret
    /\ last.op = "operator" =>
         /\ last.status = "ok"
         /\ last.ret = OperatorOf(last.form, v, other, last.arg).ret

\* "a" <= "ab" was asked of the static form and is true, as "a" < "ab" is.
C22_Witness ==
  /\ last.op = "operator"
  /\ last.form = "static"
  /\ last.arg = "<="
  /\ v = PB("kStringValue", <<97>>)
  /\ other = PB("kStringValue", <<97, 98>>)
  /\ last.ret = TRUE
  /\ YQL_COMPARE(v, other, "<").ret = TRUE
  /\ YQL_COMPARE(v, other, "==").ret = FALSE

\* A Float NaN against 1.0 in the instance form: CompareTo is 0, so == is the
\* one of the three that is true.
C22_WitnessNaN ==
  /\ last.op = "operator"
  /\ last.form = "instance"
  /\ last.arg = "=="
  /\ v = PB("kFloatValue", <<0, 255, 64, 0>>)
  /\ other = PB("kFloatValue", <<0, 127, 0, 0>>)
  /\ last.ret = TRUE

\* ========================================================================
\* The input cursor after a recoverable error, checked under SpecCodec.

\* C23: when Deserialize returns a recoverable error after the length was
\* read (the length disagrees with the fixed width of the kind, or fewer
\* payload bytes remain than it declares), the input has lost its 4-byte length
\* prefix and no payload byte; when fewer than 4 bytes remain, so that the
\* length itself cannot be read, the input is unchanged.
C23_CursorAfterError ==
  (last.op = "Deserialize" /\ last.status = "error") =>
    IF Len(last.pre) < 4 THEN data = last.pre
    ELSE /\ data = DropFirst(last.pre, 4)
         /\ Len(data) = Len(last.pre) - 4
         /\ LET len == DeclaredLength(last.pre)
            IN  \/ last.arg \in FixedWidthKinds /\ len # FixedWidth(last.arg)
                \/ len < 0
                \/ Len(last.pre) - 4 < len

\* An Int16 was asked of an input declaring 4 bytes: the error left the two
\* payload bytes behind the length in the input.
C23_Witness ==
  /\ last.op = "Deserialize"
  /\ last.status = "error"
  /\ last.arg = "INT16"
  /\ last.pre = <<0, 0, 0, 4, 0, 1>>
  /\ data = <<0, 1>>

\* A String was asked of an input of 2 bytes: the error left both in place.
C23_WitnessShort ==
  /\ last.op = "Deserialize"
  /\ last.status = "error"
  /\ last.arg = "STRING"
  /\ last.pre = <<0, 0>>
  /\ data = <<0, 0>>

====
